---- MODULE Spec2Model ----
(***************************************************************************)
(* Model of .github/scripts/auto-increment-version.py: the version bumper  *)
(* that reads Uri/Uri.csproj, increments the last component of the text of *)
(* the <Version> element, writes URI_VERSION=<new> to .env and rewrites    *)
(* the project file.                                                       *)
(*                                                                         *)
(* A Python str is a sequence of one-character strings.  A file is a       *)
(* record; the file system maps paths to files.  An XML element is a       *)
(* record [tag, attrib, text, kids].                                       *)
(***************************************************************************)
EXTENDS Integers, Sequences, FiniteSets, TLC

\* ------------------------------------------------------------------ bounds
MaxParts == 4       \* most dot-separated segments of a generated version text
MaxRuns == 2        \* most invocations of the script in one behaviour

\* --------------------------------------------------------- program constants
CSPROJ_FILE == "Uri/Uri.csproj"
ENV_VARIABLE_FILE == ".env"
ENV_VARIABLE_NAME == "URI_VERSION"

\* ------------------------------------------------------------ Python values
\* None where a str is expected: a one-token sequence that is no character.
None == <<"None">>
\* None where an element reference (a path of child indices) is expected.
NoneTag == <<0, 0>>

Digits == <<"0", "1", "2", "3", "4", "5", "6", "7", "8", "9">>
Whitespace == {" ", "\n", "\t"}

IsDigit(c) == \E i \in 1..10 : Digits[i] = c
DigitVal(c) == (CHOOSE i \in 1..10 : Digits[i] = c) - 1

\* str.strip(): what int() does to its argument before reading it.
RECURSIVE LStrip(_)
LStrip(s) ==
    IF s # <<>> /\ Head(s) \in Whitespace THEN LStrip(Tail(s)) ELSE s

RECURSIVE RStrip(_)
RStrip(s) ==
    IF s # <<>> /\ s[Len(s)] \in Whitespace
    THEN RStrip(SubSeq(s, 1, Len(s) - 1))
    ELSE s

Strip(s) == RStrip(LStrip(s))

\* The digits of an int() literal: digits, single underscores only between them.
ValidDigits(b) ==
    /\ b # <<>>
    /\ \A i \in 1..Len(b) : IsDigit(b[i]) \/ b[i] = "_"
    /\ IsDigit(b[1]) /\ IsDigit(b[Len(b)])
    /\ \A i \in 1..(Len(b) - 1) : ~(b[i] = "_" /\ b[i + 1] = "_")

RECURSIVE DigitsValue(_, _)
DigitsValue(b, acc) ==
    IF b = <<>> THEN acc
    ELSE IF Head(b) = "_" THEN DigitsValue(Tail(b), acc)
    ELSE DigitsValue(Tail(b), 10 * acc + DigitVal(Head(b)))

\* A variant of int that reads 0 where there is no integer literal.
int_lenient(s) ==
    LET t == Strip(s)
        signed == t # <<>> /\ Head(t) \in {"+", "-"}
        body == IF signed THEN Tail(t) ELSE t
    IN  IF ValidDigits(body)
        THEN [ok |-> TRUE,
              val |-> IF signed /\ Head(t) = "-"
                      THEN 0 - DigitsValue(body, 0)
                      ELSE DigitsValue(body, 0)]
        ELSE [ok |-> TRUE, val |-> 0]

\* int(s), base 10: [ok |-> FALSE] stands for ValueError.  Python ints are
\* unbounded, so there is no width to wrap at.
int(s) ==
    LET t == Strip(s)
        signed == t # <<>> /\ Head(t) \in {"+", "-"}
        body == IF signed THEN Tail(t) ELSE t
    IN  IF ValidDigits(body)
        THEN [ok |-> TRUE,
              val |-> IF signed /\ Head(t) = "-"
                      THEN 0 - DigitsValue(body, 0)
                      ELSE DigitsValue(body, 0)]
        ELSE [ok |-> FALSE, val |-> 0]

\* str(n) for an int n.
RECURSIVE StrNat(_)
StrNat(n) ==
    IF n < 10 THEN <<Digits[n + 1]>>
    ELSE StrNat(n \div 10) \o <<Digits[(n % 10) + 1]>>

\* A variant of str that pads to two digits, as '%02d' would.
str_padded(n) ==
    IF n < 0 THEN <<"-">> \o StrNat(0 - n)
    ELSE IF n < 10 THEN <<"0">> \o StrNat(n)
    ELSE StrNat(n)

str(n) == IF n < 0 THEN <<"-">> \o StrNat(0 - n) ELSE StrNat(n)

\* Index of the first sep in s, 0 when there is none.
IndexOf(s, sep) ==
    IF \E i \in 1..Len(s) : s[i] = sep
    THEN CHOOSE i \in 1..Len(s) : s[i] = sep /\ \A j \in 1..(i - 1) : s[j] # sep
    ELSE 0

\* A variant of split that cuts at every sep, as s.split(sep) would.
RECURSIVE split_all(_, _, _)
split_all(s, sep, maxsplit) ==
    LET i == IndexOf(s, sep)
    IN  IF i = 0 THEN <<s>>
        ELSE <<SubSeq(s, 1, i - 1)>>
                 \o split_all(SubSeq(s, i + 1, Len(s)), sep, maxsplit)

\* s.split(sep, maxsplit): at most maxsplit cuts, leftmost first.
RECURSIVE split(_, _, _)
split(s, sep, maxsplit) ==
    LET i == IndexOf(s, sep)
    IN  IF maxsplit = 0 \/ i = 0 THEN <<s>>
        ELSE <<SubSeq(s, 1, i - 1)>>
                 \o split(SubSeq(s, i + 1, Len(s)), sep, maxsplit - 1)

\* sep.join(parts)
RECURSIVE join(_, _)
join(sep, parts) ==
    IF parts = <<>> THEN <<>>
    ELSE IF Len(parts) = 1 THEN parts[1]
    ELSE parts[1] \o <<sep>> \o join(sep, Tail(parts))

\* ------------------------------------------------------------- XML documents
Elem(tag, attrib, text, kids) ==
    [tag |-> tag, attrib |-> attrib, text |-> text, kids |-> kids]

\* csproj_tree before ET.parse has run.
NoTree == Elem("None", <<>>, None, <<>>)

IsComment(e) == e.tag = "#comment"

\* ET.parse on a well-formed document: the default TreeBuilder keeps elements,
\* attributes and texts, discards comments (and the XML declaration, which is
\* no node), and gives an element without text the text None.
RECURSIVE ParseElement(_)
ParseElement(e) ==
    LET kept == SelectSeq(e.kids, LAMBDA k : ~IsComment(k))
    IN  Elem(e.tag, e.attrib,
             IF e.text = <<>> THEN None ELSE e.text,
             [i \in 1..Len(kept) |-> ParseElement(kept[i])])

\* ElementTree.write's serialisation of an element: a None text writes nothing.
RECURSIVE SerializeElement(_)
SerializeElement(e) ==
    Elem(e.tag, e.attrib,
         IF e.text = None THEN <<>> ELSE e.text,
         [i \in 1..Len(e.kids) |-> SerializeElement(e.kids[i])])

\* A variant of find that takes the last direct child with the tag.
find_last(e, tag) ==
    IF \E i \in 1..Len(e.kids) : e.kids[i].tag = tag
    THEN CHOOSE i \in 1..Len(e.kids) :
             /\ e.kids[i].tag = tag
             /\ \A j \in (i + 1)..Len(e.kids) : e.kids[j].tag # tag
    ELSE 0

\* Element.find(tag) with a plain tag: the first direct child with that tag,
\* as its index among the children; 0 stands for None.
find(e, tag) ==
    IF \E i \in 1..Len(e.kids) : e.kids[i].tag = tag
    THEN CHOOSE i \in 1..Len(e.kids) :
             /\ e.kids[i].tag = tag
             /\ \A j \in 1..(i - 1) : e.kids[j].tag # tag
    ELSE 0

\* ------------------------------------------------------------------- files
AbsentFile == [state |-> "absent", text |-> <<>>, decl |-> FALSE, root |-> NoTree]
MalformedFile == [state |-> "malformed", text |-> <<>>, decl |-> FALSE, root |-> NoTree]
TextFile(t) == [state |-> "text", text |-> t, decl |-> FALSE, root |-> NoTree]
XmlFile(decl, root) == [state |-> "xml", text |-> <<>>, decl |-> decl, root |-> root]

\* ENV_VARIABLE_NAME + '=' + new_version + '\n' (the name is one token).
EnvLine(v) == <<ENV_VARIABLE_NAME, "=">> \o v \o <<"\n">>

\* ------------------------------------------------------------------ inputs
Comp == { <<"0">>, <<"9">>, <<"-", "1">>, <<"r", "c", "1">>, <<"\n", "0", "7">> }
Texts == { join(".", p) : p \in UNION { [1..n -> Comp] : n \in 1..MaxParts } }

OtherText == <<"7", ".", "7", ".", "7">>
Sdk == << <<"Sdk", "Microsoft.NET.Sdk">> >>
Cond == << <<"Condition", "Release">> >>
Version(t) == Elem("Version", <<>>, t, <<>>)
TargetFramework == Elem("TargetFramework", <<>>, <<"n", "e", "t">>, <<>>)
Comment == Elem("#comment", <<>>, <<"c">>, <<>>)
Project(kids) == Elem("Project", Sdk, <<>>, kids)
PropertyGroup(attrib, kids) == Elem("PropertyGroup", attrib, <<>>, kids)
ItemGroup(kids) == Elem("ItemGroup", <<>>, <<>>, kids)

\* The project files a run may find at CSPROJ_FILE.
Manifests ==
    \* one property group holding the version
    { XmlFile(FALSE, Project(<< PropertyGroup(<<>>, << Version(t) >>) >>))
        : t \in Texts \cup {<<>>} }
    \cup
    \* declaration, comments, other elements and other version elements around it
    { XmlFile(TRUE, Project(<<
          Comment,
          ItemGroup(<< Version(OtherText) >>),
          PropertyGroup(<<>>, << TargetFramework, Comment, Version(t), Version(OtherText) >>),
          PropertyGroup(Cond, << Version(OtherText) >>) >>))
        : t \in Texts }
    \cup
    { \* the first property group has no version, a later one has
      XmlFile(FALSE, Project(<<
          PropertyGroup(<<>>, << TargetFramework >>),
          PropertyGroup(<<>>, << Version(OtherText) >>) >>)),
      \* no property group among the root's children, one deeper down
      XmlFile(FALSE, Project(<<
          ItemGroup(<< PropertyGroup(<<>>, << Version(OtherText) >>) >>) >>)),
      \* no children at all
      XmlFile(FALSE, Project(<<>>)),
      MalformedFile,
      AbsentFile }

\* What a run may find at ENV_VARIABLE_FILE.
EnvFiles ==
    { AbsentFile,
      TextFile(EnvLine(OtherText) \o <<"B", "=", "2", "\n">>) }

\* ------------------------------------------------------------------- state
VARIABLES
    fs,             \* the files: path -> file
    pc,             \* the line the run is at, or "done" / "failed"
    err,            \* the exception that ended the run, "none" while there is none
    csproj_tree,    \* line 9
    version_tag,    \* line 10: the path of the element, NoneTag for None
    version_parts,  \* lines 12-13
    new_version,    \* line 14
    fs0,            \* history: the files when the current run began
    fsInit,         \* history: the files before the first run
    started,        \* history: runs begun
    succeeded       \* history: runs that reached the end of the script

vars == <<fs, pc, err, csproj_tree, version_tag, version_parts, new_version,
          fs0, fsInit, started, succeeded>>

locals == <<csproj_tree, version_tag, version_parts, new_version>>
history == <<fs0, fsInit, started, succeeded>>

\* The two files the script names, and a neighbour it does not.
Paths == {CSPROJ_FILE, ENV_VARIABLE_FILE, "Uri/Uri.cs"}

Init ==
    /\ \E m \in Manifests, e \in EnvFiles :
           fs = [p \in Paths |->
                    IF p = CSPROJ_FILE THEN m
                    ELSE IF p = ENV_VARIABLE_FILE THEN e
                    ELSE TextFile(<<"c", "s">>)]
    /\ pc = "line9"
    /\ err = "none"
    /\ csproj_tree = NoTree
    /\ version_tag = NoneTag
    /\ version_parts = <<>>
    /\ new_version = None
    /\ fs0 = fs
    /\ fsInit = fs
    /\ started = 1
    /\ succeeded = 0

\* An unhandled exception ends the process; nothing catches it.
Raise(e) ==
    /\ pc' = "failed"
    /\ err' = e

Goto(l) ==
    /\ pc' = l
    /\ err' = err

\* A variant of SetText that changes nothing.
SetText_noop(tree, tag, t) == tree

\* A variant of SetText that sets the text of every child of the group that
\* has the located element's tag.
SetText_siblings(tree, tag, t) ==
    [tree EXCEPT !.kids[tag[1]].kids =
        [j \in 1..Len(@) |->
            IF @[j].tag = @[tag[2]].tag THEN [@[j] EXCEPT !.text = t] ELSE @[j]]]

\* The element a path refers to, and its text replaced.
TagElement(tree, tag) == tree.kids[tag[1]].kids[tag[2]]
SetText(tree, tag, t) == [tree EXCEPT !.kids[tag[1]].kids[tag[2]].text = t]

\* line 9: csproj_tree = ET.parse(CSPROJ_FILE)
Line9 ==
    /\ pc = "line9"
    /\ IF fs[CSPROJ_FILE].state = "absent"
       THEN Raise("FileNotFoundError") /\ UNCHANGED csproj_tree
       ELSE IF fs[CSPROJ_FILE].state # "xml"
       THEN Raise("ParseError") /\ UNCHANGED csproj_tree
       ELSE /\ csproj_tree' = ParseElement(fs[CSPROJ_FILE].root)
            /\ Goto("line10")
    /\ UNCHANGED <<fs, version_tag, version_parts, new_version, history>>

\* line 10: version_tag = csproj_tree.getroot().find('PropertyGroup').find('Version')
Line10 ==
    /\ pc = "line10"
    /\ LET g == find(csproj_tree, "PropertyGroup")
       IN  IF g = 0
           THEN Raise("AttributeError") /\ UNCHANGED version_tag
           ELSE LET v == find(csproj_tree.kids[g], "Version")
                IN  /\ version_tag' = IF v = 0 THEN NoneTag ELSE <<g, v>>
                    /\ Goto("line12")
    /\ UNCHANGED <<fs, csproj_tree, version_parts, new_version, history>>

\* line 12: version_parts = version_tag.text.split('.', 2)
Line12 ==
    /\ pc = "line12"
    /\ IF version_tag = NoneTag
       THEN Raise("AttributeError") /\ UNCHANGED version_parts
       ELSE IF TagElement(csproj_tree, version_tag).text = None
       THEN Raise("AttributeError") /\ UNCHANGED version_parts
       ELSE /\ version_parts' = split(TagElement(csproj_tree, version_tag).text, ".", 2)
            /\ Goto("line13")
    /\ UNCHANGED <<fs, csproj_tree, version_tag, new_version, history>>

\* line 13: version_parts[-1] = str(int(version_parts[-1]) + 1)
Line13 ==
    /\ pc = "line13"
    /\ LET n == int(version_parts[Len(version_parts)])
       IN  IF ~n.ok
           THEN Raise("ValueError") /\ UNCHANGED version_parts
           ELSE /\ version_parts' =
                       [version_parts EXCEPT ![Len(version_parts)] = str(n.val + 1)]
                /\ Goto("line14")
    /\ UNCHANGED <<fs, csproj_tree, version_tag, new_version, history>>

\* line 14: new_version = '.'.join(version_parts)
Line14 ==
    /\ pc = "line14"
    /\ new_version' = join(".", version_parts)
    /\ Goto("line16")
    /\ UNCHANGED <<fs, csproj_tree, version_tag, version_parts, history>>

\* open(path, 'w'): the file is created or truncated as it is opened.
OpenForWriting(files, path) == [files EXCEPT ![path] = TextFile(<<>>)]

\* A variant of WriteText whose data never reaches the file.
WriteText_lost(files, path, data) == files

\* f.write(data): data lands behind what the open file already holds.
WriteText(files, path, data) ==
    [files EXCEPT ![path] = TextFile(files[path].text \o data)]

\* line 16: with open(ENV_VARIABLE_FILE, 'w') as f:
Line16 ==
    /\ pc = "line16"
    /\ fs' = OpenForWriting(fs, ENV_VARIABLE_FILE)
    /\ Goto("line17")
    /\ UNCHANGED <<locals, history>>

\* line 16, open() raising (permissions, path): nothing is created or truncated.
Line16Fails ==
    /\ pc = "line16"
    /\ Raise("OSError")
    /\ UNCHANGED <<fs, locals, history>>

\* line 17 and the end of the with block:
\* f.write(ENV_VARIABLE_NAME + '=' + new_version + '\n'), then f is closed.
Line17 ==
    /\ pc = "line17"
    /\ fs' = WriteText(fs, ENV_VARIABLE_FILE, EnvLine(new_version))
    /\ Goto("line19")
    /\ UNCHANGED <<locals, history>>

\* line 17, the write or the flush on close raising: any proper prefix of the
\* line may have reached the file that line 16 truncated.
Line17Fails ==
    /\ pc = "line17"
    /\ \E k \in 0..(Len(EnvLine(new_version)) - 1) :
           fs' = WriteText(fs, ENV_VARIABLE_FILE, SubSeq(EnvLine(new_version), 1, k))
    /\ Raise("OSError")
    /\ UNCHANGED <<locals, history>>

\* line 19: version_tag.text = new_version
Line19 ==
    /\ pc = "line19"
    /\ csproj_tree' = SetText(csproj_tree, version_tag, new_version)
    /\ Goto("line20")
    /\ UNCHANGED <<fs, version_tag, version_parts, new_version, history>>

\* ElementTree.write(path): with the default encoding no XML declaration is
\* written; the document is the serialised root element.
WriteTree(files, path, tree) ==
    [files EXCEPT ![path] = XmlFile(FALSE, SerializeElement(tree))]

\* line 20: csproj_tree.write(CSPROJ_FILE); the script ends.
Line20 ==
    /\ pc = "line20"
    /\ fs' = WriteTree(fs, CSPROJ_FILE, csproj_tree)
    /\ pc' = "done"
    /\ err' = err
    /\ succeeded' = succeeded + 1
    /\ UNCHANGED <<locals, fs0, fsInit, started>>

\* line 20, write() failing to open the file: it is left as it was.
Line20OpenFails ==
    /\ pc = "line20"
    /\ Raise("OSError")
    /\ UNCHANGED <<fs, locals, history>>

\* line 20, write() failing after it opened (and so truncated) the file: what is
\* left is a proper prefix of a document, which is not well-formed.
Line20WriteFails ==
    /\ pc = "line20"
    /\ fs' = [fs EXCEPT ![CSPROJ_FILE] = MalformedFile]
    /\ Raise("OSError")
    /\ UNCHANGED <<locals, history>>

\* The pipeline (or an operator) runs the script again: a new process, whose
\* only inheritance is the files.
Rerun ==
    /\ pc \in {"done", "failed"}
    /\ started < MaxRuns
    /\ pc' = "line9"
    /\ err' = "none"
    /\ csproj_tree' = NoTree
    /\ version_tag' = NoneTag
    /\ version_parts' = <<>>
    /\ new_version' = None
    /\ fs0' = fs
    /\ started' = started + 1
    /\ UNCHANGED <<fs, fsInit, succeeded>>

Next ==
    \/ Line9
    \/ Line10
    \/ Line12
    \/ Line13
    \/ Line14
    \/ Line16
    \/ Line16Fails
    \/ Line17
    \/ Line17Fails
    \/ Line19
    \/ Line20
    \/ Line20OpenFails
    \/ Line20WriteFails
    \/ Rerun

Spec == Init /\ [][Next]_vars

\* ===================================================================
\* Vocabulary of the properties, defined apart from the operators above.
\* ===================================================================
LastDot(t) ==
    IF \E i \in 1..Len(t) : t[i] = "."
    THEN CHOOSE i \in 1..Len(t) : t[i] = "." /\ \A j \in (i + 1)..Len(t) : t[j] # "."
    ELSE 0

\* Every dot-separated segment of a text, cut from the right.
RECURSIVE Segments(_)
Segments(t) ==
    IF LastDot(t) = 0 THEN <<t>>
    ELSE Append(Segments(SubSeq(t, 1, LastDot(t) - 1)),
                SubSeq(t, LastDot(t) + 1, Len(t)))

Numerals == {"0", "1", "2", "3", "4", "5", "6", "7", "8", "9"}

\* A non-negative integer written in decimal: one or more digits.
IsNumeral(s) == s # <<>> /\ \A i \in 1..Len(s) : s[i] \in Numerals

NumeralDigit(c) ==
    CASE c = "0" -> 0 [] c = "1" -> 1 [] c = "2" -> 2 [] c = "3" -> 3
      [] c = "4" -> 4 [] c = "5" -> 5 [] c = "6" -> 6 [] c = "7" -> 7
      [] c = "8" -> 8 [] c = "9" -> 9

RECURSIVE NumeralValue(_)
NumeralValue(s) ==
    IF Len(s) = 1 THEN NumeralDigit(s[1])
    ELSE 10 * NumeralValue(SubSeq(s, 1, Len(s) - 1)) + NumeralDigit(s[Len(s)])

Unpadded(s) == Len(s) = 1 \/ s[1] # "0"

\* "X.Y.Z with Z a non-negative integer"
IsXYZ(t) == Len(Segments(t)) = 3 /\ IsNumeral(Segments(t)[3])

Blank(c) == c \in {" ", "\t", "\n"}

\* A text that denotes an integer: blanks around it allowed, one optional sign,
\* then digits, where an underscore may stand between two digits.
IsIntegerText(s) ==
    \E a \in 1..Len(s), b \in 1..Len(s) :
        /\ a <= b
        /\ \A i \in 1..Len(s) : (i < a \/ i > b) => Blank(s[i])
        /\ LET first == IF s[a] \in {"+", "-"} THEN a + 1 ELSE a
           IN  /\ first <= b
               /\ s[first] \in Numerals /\ s[b] \in Numerals
               /\ \A i \in first..b :
                      \/ s[i] \in Numerals
                      \/ s[i] = "_" /\ s[i - 1] \in Numerals /\ s[i + 1] \in Numerals

IsPropertyGroup(e) == e.tag = "PropertyGroup"
IsVersion(e) == e.tag = "Version"

\* The version elements of the first property group under the root of a
\* document: <<>> when the file is no document or has no such group.
FirstGroupVersions(file) ==
    IF file.state # "xml" THEN <<>>
    ELSE LET gs == SelectSeq(file.root.kids, IsPropertyGroup)
         IN  IF gs = <<>> THEN <<>> ELSE SelectSeq(gs[1].kids, IsVersion)

\* The version text of a project file, None when it has none.
DocVersionText(file) ==
    IF FirstGroupVersions(file) = <<>> \/ FirstGroupVersions(file)[1].text = <<>>
    THEN None
    ELSE FirstGroupVersions(file)[1].text

OldText == DocVersionText(fs0[CSPROJ_FILE])
NewText == DocVersionText(fs[CSPROJ_FILE])
FirstText == DocVersionText(fsInit[CSPROJ_FILE])

\* The environment file is exactly the one record for version v.
EnvHolds(v) ==
    /\ v # None
    /\ fs[ENV_VARIABLE_FILE].state = "text"
    /\ fs[ENV_VARIABLE_FILE].text = <<"URI_VERSION", "=">> \o v \o <<"\n">>

\* The run has passed the parsing and incrementing of lines 12-13.
PastParsing == pc \in {"line14", "line16", "line17", "line19", "line20", "done"}

FormatError == "ValueError"
SchemaError == "AttributeError"

\* ===================================================================
\* Properties
\* ===================================================================

\* C1: a successful run on a project file whose version text is X.Y.Z, Z a
\* non-negative integer, leaves X.Y.(Z+1) in the version element and in the
\* environment file: X and Y unchanged, the last component the unpadded
\* decimal numeral of Z+1, the same string in both files.
C1_BumpsLastComponent ==
    (pc = "done" /\ OldText # None /\ IsXYZ(OldText)) =>
        /\ NewText # None
        /\ Len(Segments(NewText)) = 3
        /\ Segments(NewText)[1] = Segments(OldText)[1]
        /\ Segments(NewText)[2] = Segments(OldText)[2]
        /\ IsNumeral(Segments(NewText)[3])
        /\ Unpadded(Segments(NewText)[3])
        /\ NumeralValue(Segments(NewText)[3]) = NumeralValue(Segments(OldText)[3]) + 1
        /\ EnvHolds(NewText)

\* 0.0.9 has become 0.0.10 in both files.
C1_Witness ==
    /\ pc = "done"
    /\ OldText = <<"0", ".", "0", ".", "9">>
    /\ NewText = <<"0", ".", "0", ".", "1", "0">>
    /\ EnvHolds(NewText)

\* C2: n successive successful runs from X.Y.Z leave X.Y.(Z+n) in the project
\* file and the environment file (two runs give Z+2, not Z+1), and every
\* successful run strictly increases the last component.
C2_RunsAccumulate ==
    /\ (pc = "done" /\ succeeded = started /\ FirstText # None /\ IsXYZ(FirstText)) =>
           /\ NewText # None
           /\ IsXYZ(NewText)
           /\ Segments(NewText)[1] = Segments(FirstText)[1]
           /\ Segments(NewText)[2] = Segments(FirstText)[2]
           /\ NumeralValue(Segments(NewText)[3])
                  = NumeralValue(Segments(FirstText)[3]) + succeeded
           /\ EnvHolds(NewText)
    /\ (pc = "done" /\ OldText # None /\ IsXYZ(OldText)) =>
           /\ NewText # None
           /\ IsXYZ(NewText)
           /\ NumeralValue(Segments(NewText)[3]) > NumeralValue(Segments(OldText)[3])

\* Two runs have taken 0.0.9 to 0.0.11.
C2_Witness ==
    /\ pc = "done"
    /\ started = 2
    /\ succeeded = 2
    /\ FirstText = <<"0", ".", "0", ".", "9">>
    /\ NewText = <<"0", ".", "0", ".", "1", "1">>

\* The project file the run began with is a document without a property group
\* under its root, or whose first property group has no version child.
NoVersionElement ==
    /\ fs0[CSPROJ_FILE].state = "xml"
    /\ FirstGroupVersions(fs0[CSPROJ_FILE]) = <<>>

\* C3: a run on a project file that lacks the property group or the version
\* child fails at the lookup with the null-dereference error (SchemaError), and
\* neither the environment file nor the project file is touched.
C3_MissingElementFails ==
    NoVersionElement =>
        /\ pc \in {"line9", "line10", "line12", "failed"}
        /\ pc = "failed" => err = SchemaError
        /\ fs = fs0

\* Such a run has failed, with an environment file in place from before.
C3_Witness ==
    /\ NoVersionElement
    /\ pc = "failed"
    /\ err = SchemaError
    /\ fs[ENV_VARIABLE_FILE].state = "text"

\* C4: when the last component of the version text is not an integer the run
\* fails with the conversion error (FormatError) before either write: neither
\* the environment file nor the project file is modified.
C4_NonIntegerFails ==
    (OldText # None /\ ~IsIntegerText(Segments(OldText)[Len(Segments(OldText))])) =>
        /\ ~PastParsing
        /\ pc = "failed" => err = FormatError
        /\ fs = fs0

\* 0.0.rc1 has been refused.
C4_Witness ==
    /\ OldText = <<"0", ".", "0", ".", "r", "c", "1">>
    /\ pc = "failed"
    /\ err = FormatError
    /\ fs = fs0

\* The project file holds the version the run computed.
ManifestHoldsNew == new_version # None /\ NewText = new_version

ManifestUnmodified == fs[CSPROJ_FILE] = fs0[CSPROJ_FILE]
EnvUnchanged == fs[ENV_VARIABLE_FILE] = fs0[ENV_VARIABLE_FILE]

\* The environment file was truncated and holds only a proper prefix of the
\* record the run was writing.
EnvCutShort ==
    /\ new_version # None
    /\ fs[ENV_VARIABLE_FILE].state = "text"
    /\ LET line == <<"URI_VERSION", "=">> \o new_version \o <<"\n">>
           had == fs[ENV_VARIABLE_FILE].text
       IN  Len(had) < Len(line) /\ had = SubSeq(line, 1, Len(had))

\* C5, as claimed: however a run ends, either both files hold the new version,
\* or the project file is unmodified and the environment file is unchanged or
\* holds the new version; and the project file is never modified while the
\* environment file does not hold the new version.
C5_NoPartialState ==
    /\ pc \in {"done", "failed"} =>
           \/ ManifestHoldsNew /\ EnvHolds(new_version)
           \/ ManifestUnmodified /\ (EnvUnchanged \/ EnvHolds(new_version))
    /\ ~ManifestUnmodified => EnvHolds(new_version)

\* C5, amended: a completed run leaves the new version in both files; a run
\* that aborts leaves the project file unmodified with the environment file
\* unchanged, holding the new version, or cut short (truncated by line 16 and
\* holding a proper prefix of the record), or, when the abort falls inside the
\* final write, leaves the project file truncated with the environment file
\* holding the new version; the project file is never modified while the
\* environment file does not hold the new version.
C5_EnvFirstThenManifest ==
    /\ pc = "done" => ManifestHoldsNew /\ EnvHolds(new_version)
    /\ pc = "failed" =>
           \/ ManifestUnmodified
                  /\ (EnvUnchanged \/ EnvHolds(new_version) \/ EnvCutShort)
           \/ fs[CSPROJ_FILE].state = "malformed" /\ EnvHolds(new_version)
    /\ ~ManifestUnmodified => EnvHolds(new_version)

\* A run aborted by the final write failing to open the project file: the
\* environment file is already written, the project file is as it was.
C5_Witness ==
    /\ pc = "failed"
    /\ err = "OSError"
    /\ ManifestUnmodified
    /\ EnvHolds(new_version)
    /\ ~EnvUnchanged

\* The number of line ends in a text.
LineEnds(t) == Cardinality({i \in 1..Len(t) : t[i] = "\n"})

\* C6: after a successful run the environment file is exactly one line,
\* URI_VERSION=<new_version> and a line end, whatever it held before.
C6_EnvIsOneLine ==
    pc = "done" =>
        /\ EnvHolds(NewText)
        /\ LineEnds(fs[ENV_VARIABLE_FILE].text) = 1

\* The elements of a document, comments left out, every text kept.
IsElement(e) == e.tag # "#comment"

RECURSIVE Content(_)
Content(e) ==
    LET es == SelectSeq(e.kids, IsElement)
    IN  [tag |-> e.tag, attrib |-> e.attrib, text |-> e.text,
         kids |-> [i \in 1..Len(es) |-> Content(es[i])]]

\* Position of the first element with the tag among a sequence of elements,
\* 0 when none has it.
FirstWith(es, tag) ==
    LET before == Cardinality({i \in 1..Len(es) : \A j \in 1..i : es[j].tag # tag})
    IN  IF before = Len(es) THEN 0 ELSE before + 1

\* Where the version element is, in the content of a document with one.
GroupAt(c) == FirstWith(c.kids, "PropertyGroup")
VersionAt(c) == FirstWith(c.kids[GroupAt(c)].kids, "Version")

MatchesPattern(t) == IsXYZ(t)

\* C8: a run succeeds only if the version text has exactly three dot-separated
\* components with a non-negative integer last; any other version text fails
\* with FormatError and neither file is written.
C8_OnlyThreeComponentVersions ==
    (OldText # None /\ ~MatchesPattern(OldText)) =>
        /\ ~PastParsing
        /\ pc = "failed" => err = FormatError
        /\ fs = fs0

\* What follows the second dot of a text with at least two dots.
AfterSecondDot(t) ==
    SubSeq(t, Len(Segments(t)[1]) + Len(Segments(t)[2]) + 3, Len(t))

\* C9: the text is cut at its first two dots only, into at most three parts;
\* with more than three segments the last part is everything after the second
\* dot, which is no integer, so the run fails with the conversion error before
\* either file is written.
C9_ExtraSegmentsRejected ==
    /\ pc = "line13" => Len(version_parts) <= 3
    /\ (OldText # None /\ Len(Segments(OldText)) > 3) =>
           /\ pc = "line13" =>
                  version_parts = <<Segments(OldText)[1], Segments(OldText)[2],
                                    AfterSecondDot(OldText)>>
           /\ ~PastParsing
           /\ pc = "failed" => err = FormatError
           /\ fs = fs0

\* 0.0.0.9 has been refused, nothing written.
C9_Witness ==
    /\ OldText = <<"0", ".", "0", ".", "0", ".", "9">>
    /\ pc = "failed"
    /\ err = FormatError
    /\ fs = fs0

\* The version elements of a document's content, as <<group, child>> positions.
VersionPlaces(c) ==
    UNION { { <<i, j>> : j \in {k \in 1..Len(c.kids[i].kids) :
                                     c.kids[i].kids[k].tag = "Version"} }
            : i \in 1..Len(c.kids) }

\* C10: only the first property group directly under the root is looked at,
\* and in it only the first version child: that element is the one located;
\* when the first group has no version child the run fails even if a later
\* group has one; on success exactly the located element's text is bumped and
\* every other version element keeps its text.
C10_FirstGroupFirstVersion ==
    fs0[CSPROJ_FILE].state = "xml" =>
        LET old == Content(fs0[CSPROJ_FILE].root)
            g == GroupAt(old)
        IN  /\ (pc \in {"line12", "line13"} \/ PastParsing) => g # 0
            /\ ((pc \in {"line12", "line13"} \/ PastParsing) /\ version_tag # NoneTag) =>
                   version_tag = <<g, VersionAt(old)>>
            /\ (pc = "line13" \/ PastParsing) => VersionAt(old) # 0
            /\ pc = "done" =>
                   LET new == Content(fs[CSPROJ_FILE].root)
                   IN  /\ VersionPlaces(new) = VersionPlaces(old)
                       /\ \A q \in VersionPlaces(old) :
                              (new.kids[q[1]].kids[q[2]].text
                                   = old.kids[q[1]].kids[q[2]].text)
                                <=> q # <<g, VersionAt(old)>>

\* The second of three groups was the first property group, its second child
\* the first version: that one was bumped, a later group's version was not.
C10_Witness ==
    /\ pc = "done"
    /\ version_tag = <<2, 2>>
    /\ Content(fs[CSPROJ_FILE].root).kids[3].kids[1].text = OtherText
    /\ Content(fs[CSPROJ_FILE].root).kids[2].kids[2].text = new_version

\* The first property group has no version, a later one has, and the run failed.
C10_FailsWitness ==
    /\ NoVersionElement
    /\ Len(fs0[CSPROJ_FILE].root.kids) = 2
    /\ fs0[CSPROJ_FILE].root.kids[2].kids[1].tag = "Version"
    /\ pc = "failed"

====
